---- MODULE Spec2Model ----
(***************************************************************************)
(* target-oracle: the batch loader of OracleSink (process_batch, staging   *)
(* table, MERGE upsert) and the schema reconciliation of OracleConnector   *)
(* (prepare_column, _adapt_column_type, merge_sql_types), run against a    *)
(* relational database that is part of the state.                          *)
(*                                                                         *)
(* Names (columns, tables) are sequences of one-character strings, so that *)
(* the string functions of the source are computed, not assumed.           *)
(* A python None, an absent field and a NULL are the value 0.               *)
(***************************************************************************)
EXTENDS Integers, Sequences, FiniteSets, TLC

\* ------------------------------------------------------------------ bounds
MaxBatches == 2   \* batches started in one behaviour
MaxRecs == 2      \* records in one batch
MaxKey == 2       \* the values of a key property are 1..MaxKey
MaxVal == 1       \* the values of another property are 1..MaxVal, 0 is null
MaxTextLens == 4  \* the lengths of bounded texts are 25, 50, ..., 25 * MaxTextLens
MaxNameLen == 4   \* the length of a name given to conform_name
MaxAnyOf == 2     \* the alternatives of an anyOf

\* ------------------------------------------------------- program constants
ClobThreshold == 4000      \* sinks.py:134  maxlength > 4000 -> CLOB
NumericPrecision == 38     \* sinks.py:148  NUMERIC(38, 10)
NumericScale == 10         \* sinks.py:148
BooleanLength == 1         \* sinks.py:151  VARCHAR(1)

\* ------------------------------------------------------------ small helpers
Max(a, b) == IF a >= b THEN a ELSE b

RECURSIVE SeqToSet(_)
SeqToSet(s) == IF s = <<>> THEN {} ELSE {Head(s)} \cup SeqToSet(Tail(s))

\* The sequences over S of length 0..n.
SeqsUpTo(S, n) == UNION {[1..k -> S] : k \in 0..n}

\* ------------------------------------------------- column type descriptors
\* A sqlalchemy type: its class name and the attributes str() prints.
\* length 0 is "no length" (None, or no such attribute).
SqlType(f, l, p, s) == [fam |-> f, length |-> l, precision |-> p, scale |-> s]
VARCHAR(n) == SqlType("VARCHAR", n, 0, 0)
CLOB == SqlType("CLOB", 0, 0, 0)
INTEGER == SqlType("INTEGER", 0, 0, 0)
NUMERIC(p, s) == SqlType("NUMERIC", 0, p, s)
FLOAT == SqlType("FLOAT", 0, 0, 0)
TIMESTAMP == SqlType("TIMESTAMP", 0, 0, 0)
DATE == SqlType("DATE", 0, 0, 0)

\* str(sql_type): "VARCHAR(50)", "CLOB", "NUMERIC(38, 10)": the class name
\* and every attribute, so two types print alike iff all four agree.
TypeStr(t) == <<t.fam, t.length, t.precision, t.scale>>

\* str(sql_type).split(" ")[0]: "NUMERIC(38, 10)" is cut at its blank, which
\* drops the scale; every other type prints without a blank.
TypeStrHead(t) == <<t.fam, t.length, t.precision>>

\* issubclass(type(opt.as_generic()), (String, Unicode))
IsStringType(t) == t.fam \in {"VARCHAR", "CLOB"}

\* ------------------------------------------------------------- to_sql_type
\* A JSON-schema fragment: type is the set of its type tags ({} when the
\* fragment has no "type"), format "" when absent, maxLength -1 when absent,
\* anyOf the sequence of its alternative fragments.
Fragment(tags, fmt, maxlen) ==
    [type |-> tags, format |-> fmt, maxLength |-> maxlen, anyOf |-> <<>>]

RECURSIVE jsonschema_type_check(_, _)
jsonschema_type_check(frag, tag) ==
    \/ tag \in frag.type
    \/ \E i \in 1..Len(frag.anyOf) : jsonschema_type_check(frag.anyOf[i], tag)

DateLike == {"date-time", "time", "date"}

is_string_with_format(frag) == "string" \in frag.type /\ frag.format \in DateLike

\* singer_sdk get_datelike_property_type: the format of the fragment, else of
\* its first anyOf alternative that is a string with a date-like format; ""
\* is None.
get_datelike_property_type(frag) ==
    IF is_string_with_format(frag) THEN frag.format
    ELSE LET hits == {i \in 1..Len(frag.anyOf) : is_string_with_format(frag.anyOf[i])}
         IN IF hits = {} THEN ""
            ELSE frag.anyOf[CHOOSE i \in hits : \A j \in hits : i <= j].format

to_sql_type(frag, prefer_float) ==
    IF jsonschema_type_check(frag, "string") THEN
        LET d == get_datelike_property_type(frag)
        IN IF d = "date-time" THEN TIMESTAMP
           ELSE IF d = "time" THEN TIMESTAMP
           ELSE IF d = "date" THEN DATE
           ELSE IF frag.maxLength = -1 \/ frag.maxLength > ClobThreshold THEN CLOB
           ELSE VARCHAR(frag.maxLength)
    ELSE IF jsonschema_type_check(frag, "integer") THEN INTEGER
    ELSE IF jsonschema_type_check(frag, "number") THEN
        IF prefer_float THEN FLOAT ELSE NUMERIC(NumericPrecision, NumericScale)
    ELSE IF jsonschema_type_check(frag, "boolean") THEN VARCHAR(BooleanLength)
    ELSE IF jsonschema_type_check(frag, "object") THEN CLOB
    ELSE IF jsonschema_type_check(frag, "array") THEN CLOB
    ELSE VARCHAR(ClobThreshold)

\* --------------------------------------------------------- merge_sql_types
\* singer_sdk SQLConnector._sort_types: the key (rank, length) of a type,
\* rank by python_type: str 900, datetime 600, float 400, int 300, else 0.
TypeRank(t) ==
    IF IsStringType(t) THEN 900
    ELSE IF t.fam = "TIMESTAMP" THEN 600
    ELSE IF t.fam = "FLOAT" THEN 400
    ELSE IF t.fam = "INTEGER" THEN 300
    ELSE 0

\* key(a) >= key(b) on the tuples (rank, length)
SortKeyGeq(a, b) ==
    \/ TypeRank(a) > TypeRank(b)
    \/ TypeRank(a) = TypeRank(b) /\ a.length >= b.length

\* sorted(sql_types, key=..., reverse=True): stable, so of two equal keys the
\* earlier stays first (insertion into the sorted tail).
RECURSIVE InsertSorted(_, _)
InsertSorted(t, s) ==
    IF s = <<>> THEN <<t>>
    ELSE IF SortKeyGeq(t, Head(s)) THEN <<t>> \o s
    ELSE <<Head(s)>> \o InsertSorted(t, Tail(s))

RECURSIVE sort_types(_)
sort_types(s) ==
    IF s = <<>> THEN <<>> ELSE InsertSorted(Head(s), sort_types(Tail(s)))

\* The ValueError of merge_sql_types, as a descriptor no column has.
MergeError == SqlType("ValueError", 0, 0, 0)

\* The for loop of merge_sql_types over the two sorted types: the first opt
\* that is a string at least as long as current_type (or without length), or
\* that is no string and prints like current_type; else the ValueError.
RECURSIVE MergeLoop(_, _)
MergeLoop(opts, current_type) ==
    IF opts = <<>> THEN MergeError
    ELSE LET opt == Head(opts)
         IN IF IsStringType(opt)
            THEN IF opt.length = 0 \/ opt.length >= current_type.length
                 THEN opt
                 ELSE MergeLoop(Tail(opts), current_type)
            ELSE IF TypeStr(opt) = TypeStr(current_type)
                 THEN opt
                 ELSE MergeLoop(Tail(opts), current_type)

RECURSIVE merge_sql_types(_)
merge_sql_types(sql_types) ==
    IF sql_types = <<>> THEN MergeError
    ELSE IF Len(sql_types) = 1 THEN sql_types[1]
    ELSE LET current_type == sql_types[1]
             sorted == sort_types(sql_types)
         IN IF Len(sorted) > 2
            THEN LET first == merge_sql_types(<<sorted[1], sorted[2]>>)
                 IN IF first = MergeError THEN MergeError
                    ELSE merge_sql_types(<<first>> \o SubSeq(sorted, 3, Len(sorted)))
            ELSE MergeLoop(sorted, current_type)

\* ------------------------------------------------------------ conform_name
UpperChars ==
    <<"A", "B", "C", "D", "E", "F", "G", "H", "I", "J", "K", "L", "M",
      "N", "O", "P", "Q", "R", "S", "T", "U", "V", "W", "X", "Y", "Z">>
LowerChars ==
    <<"a", "b", "c", "d", "e", "f", "g", "h", "i", "j", "k", "l", "m",
      "n", "o", "p", "q", "r", "s", "t", "u", "v", "w", "x", "y", "z">>
DigitChars == {"0", "1", "2", "3", "4", "5", "6", "7", "8", "9"}

IsUpper(c) == \E i \in 1..Len(UpperChars) : UpperChars[i] = c
IsLower(c) == \E i \in 1..Len(LowerChars) : LowerChars[i] = c
IsDigit(c) == c \in DigitChars
IsWordChar(c) == IsUpper(c) \/ IsLower(c) \/ IsDigit(c) \/ c = "_"

\* str.lower() of one character
LowerChar(c) ==
    IF IsUpper(c)
    THEN LowerChars[CHOOSE i \in 1..Len(UpperChars) : UpperChars[i] = c]
    ELSE c

\* re.sub(r"[^a-zA-Z0-9_]+", "_", name): every maximal run of other
\* characters becomes one underscore.
RECURSIVE ReplaceSpecial(_)
ReplaceSpecial(s) ==
    IF s = <<>> THEN <<>>
    ELSE IF IsWordChar(Head(s)) THEN <<Head(s)>> \o ReplaceSpecial(Tail(s))
    ELSE IF Len(s) >= 2 /\ ~IsWordChar(s[2]) THEN ReplaceSpecial(Tail(s))
    ELSE <<"_">> \o ReplaceSpecial(Tail(s))

\* The number of leading underscores of s.
RECURSIVE LeadingUnderscores(_)
LeadingUnderscores(s) ==
    IF s # <<>> /\ Head(s) = "_" THEN 1 + LeadingUnderscores(Tail(s)) ELSE 0

\* A move_leading_underscores that moves one underscore only.
move_leading_underscores_one(s) ==
    IF s # <<>> /\ Head(s) = "_" THEN Tail(s) \o <<"_">> ELSE s

\* re.match(r'^(_*)(.*)'): group(2) + group(1)
move_leading_underscores(s) ==
    LET k == LeadingUnderscores(s)
    IN SubSeq(s, k + 1, Len(s)) \o SubSeq(s, 1, k)

\* The length of the run of lowercase letters of s that starts at i.
RECURSIVE LowerRun(_, _)
LowerRun(s, i) ==
    IF i <= Len(s) /\ IsLower(s[i]) THEN 1 + LowerRun(s, i + 1) ELSE 0

\* re.sub("(.)([A-Z][a-z]+)", r"\1_\2", name), scanning from i: a character
\* followed by an uppercase letter and a run of lowercase letters gets an
\* underscore after it, and the scan goes on after the run.
RECURSIVE SnakeWords(_, _)
SnakeWords(s, i) ==
    IF i > Len(s) THEN <<>>
    ELSE IF i + 2 <= Len(s) /\ IsUpper(s[i + 1]) /\ IsLower(s[i + 2])
    THEN LET n == LowerRun(s, i + 2)
         IN <<s[i], "_">> \o SubSeq(s, i + 1, i + 1 + n) \o SnakeWords(s, i + 2 + n)
    ELSE <<s[i]>> \o SnakeWords(s, i + 1)

\* re.sub("([a-z0-9])([A-Z])", r"\1_\2", name), scanning from i
RECURSIVE SnakeHumps(_, _)
SnakeHumps(s, i) ==
    IF i > Len(s) THEN <<>>
    ELSE IF i + 1 <= Len(s) /\ (IsLower(s[i]) \/ IsDigit(s[i])) /\ IsUpper(s[i + 1])
    THEN <<s[i], "_", s[i + 1]>> \o SnakeHumps(s, i + 2)
    ELSE <<s[i]>> \o SnakeHumps(s, i + 1)

snakecase(s) ==
    LET t == SnakeHumps(SnakeWords(s, 1), 1)
    IN [i \in 1..Len(t) |-> LowerChar(t[i])]

\* The letter that stands for digit c: a for 0, b for 1, ...
DigitLetter(c) ==
    LET ds == <<"0", "1", "2", "3", "4", "5", "6", "7", "8", "9">>
    IN LowerChars[CHOOSE i \in 1..10 : ds[i] = c]

\* A conform_name that puts a letter in the place of a leading digit.
conform_name_lettered(name) ==
    LET s == snakecase(move_leading_underscores(ReplaceSpecial(name)))
    IN IF s # <<>> /\ IsDigit(s[1]) THEN <<DigitLetter(s[1])>> \o Tail(s) ELSE s

conform_name(name) ==
    LET s == snakecase(move_leading_underscores(ReplaceSpecial(name)))
    IN IF s # <<>> /\ IsDigit(s[1]) THEN <<"n">> \o s ELSE s

\* ---------------------------------------------------- build_temp_table_name
\* str.strip(): leading and trailing blanks removed
RECURSIVE StripLeft(_)
StripLeft(s) == IF s # <<>> /\ Head(s) = " " THEN StripLeft(Tail(s)) ELSE s

RECURSIVE StripRight(_)
StripRight(s) ==
    IF s # <<>> /\ s[Len(s)] = " " THEN StripRight(SubSeq(s, 1, Len(s) - 1)) ELSE s

Strip(s) == StripRight(StripLeft(s))

SuffixTemp == <<"_", "t", "e", "m", "p">>

append_suffix_to_ident(ident0, suffix) ==
    LET ident == Strip(ident0)
    IN IF ident # <<>> /\ Head(ident) = "\"" /\ ident[Len(ident)] = "\""
       THEN <<"\"">> \o SubSeq(ident, 2, Len(ident) - 1) \o suffix \o <<"\"">>
       ELSE ident \o suffix

\* A build_temp_table_name that leaves the table's own name out of the name
\* of its staging table.
build_temp_table_name_shared(full_table_name, suffix) ==
    <<"s", "t", "a", "g", "e">> \o suffix

build_temp_table_name(full_table_name, suffix) ==
    LET dots == {i \in 1..Len(full_table_name) : full_table_name[i] = "."}
    IN IF dots # {}
       THEN LET d == CHOOSE i \in dots : \A j \in dots : i <= j
            IN SubSeq(full_table_name, 1, d)
                 \o append_suffix_to_ident(
                      SubSeq(full_table_name, d + 1, Len(full_table_name)), suffix)
       ELSE append_suffix_to_ident(full_table_name, suffix)

\* ------------------------------------------------------------- the database
\* db is a function from the names of the tables that exist to tables. A table
\* is its columns in order, the columns of its primary-key constraint ({} when
\* it has none) and its rows in insertion order; a row is a function from the
\* table's column names to values, 0 for NULL.
Table(cols, pk, rows) == [cols |-> cols, pk |-> pk, rows |-> rows]

Col(name, type) == [name |-> name, type |-> type]

ColNames(tbl) == {tbl.cols[i].name : i \in 1..Len(tbl.cols)}

ColType(tbl, name) ==
    tbl.cols[CHOOSE i \in 1..Len(tbl.cols) : tbl.cols[i].name = name].type

table_exists(dbx, t) == t \in DOMAIN dbx

column_exists(dbx, t, c) == table_exists(dbx, t) /\ c \in ColNames(dbx[t])

\* dbx with table t set to tbl (created or replaced), and with t removed.
PutTable(dbx, t, tbl) ==
    [n \in DOMAIN dbx \cup {t} |-> IF n = t THEN tbl ELSE dbx[n]]

RemoveTable(dbx, t) == [n \in DOMAIN dbx \ {t} |-> dbx[n]]

\* The primary-key constraint of a table: key columns not null, and no two
\* rows alike on all of them.
PkHolds(pk, rows) ==
    \/ pk = {}
    \/ /\ \A i \in 1..Len(rows) : \A k \in pk : rows[i][k] # 0
       /\ \A i, j \in 1..Len(rows) :
            i # j => \E k \in pk : rows[i][k] # rows[j][k]

\* The row a table with columns cols stores for the values vals (a function
\* from some of the columns): NULL in every other column.
FullRow(cols, vals) == [c \in cols |-> IF c \in DOMAIN vals THEN vals[c] ELSE 0]

\* ALTER TABLE t ADD (c type): the rows get NULL in the new column.
AddColumn(tbl, c, type) ==
    Table(Append(tbl.cols, Col(c, type)), tbl.pk,
          [i \in 1..Len(tbl.rows) |-> FullRow(ColNames(tbl) \cup {c}, tbl.rows[i])])

\* ALTER TABLE t MODIFY (c type)
ModifyColumn(tbl, c, type) ==
    Table([i \in 1..Len(tbl.cols) |->
             IF tbl.cols[i].name = c THEN Col(c, type) ELSE tbl.cols[i]],
          tbl.pk, tbl.rows)

\* CREATE TABLE tmp AS (SELECT * FROM t WHERE 1=0): the columns, no rows and
\* no primary-key constraint.
EmptyCopy(tbl) == Table(tbl.cols, {}, <<>>)

\* INSERT INTO t (cols) VALUES ...: one row per record, in order. The statement
\* is rejected when a named column is not in the table or the constraint fails.
InsertAccepted(tbl, cols, recs) ==
    /\ cols \subseteq ColNames(tbl)
    /\ PkHolds(tbl.pk, tbl.rows \o [i \in 1..Len(recs) |-> FullRow(ColNames(tbl), recs[i])])

InsertRows(tbl, recs) ==
    Table(tbl.cols, tbl.pk,
          tbl.rows \o [i \in 1..Len(recs) |-> FullRow(ColNames(tbl), recs[i])])

\* MERGE INTO target USING staging temp ON (temp.k = target.k and ...): a
\* staging row matches a target row when they agree on every join key (NULL
\* equals nothing).
Matches(s, r, keys) == \A k \in keys : s[k] # 0 /\ s[k] = r[k]

\* An ON condition no row satisfies.
Matched_never(s, rows, keys) == FALSE

Matched(s, rows, keys) == \E j \in 1..Len(rows) : Matches(s, rows[j], keys)

\* A MERGE whose WHEN MATCHED branch sets nothing.
UpdatedRow_unset(r, srows, keys, upd) == r

\* WHEN MATCHED THEN UPDATE SET target.c = temp.c for c in upd: the target
\* row r after the update from the staging rows that match it (the statement
\* is rejected when there are two).
UpdatedRow(r, srows, keys, upd) ==
    LET hits == {i \in 1..Len(srows) : Matches(srows[i], r, keys)}
    IN IF hits = {} THEN r
       ELSE LET s == srows[CHOOSE i \in hits : TRUE]
            IN [c \in DOMAIN r |-> IF c \in upd THEN s[c] ELSE r[c]]

\* WHEN NOT MATCHED THEN INSERT (props) VALUES (temp.props): the staging rows
\* that match no target row, in staging order.
RECURSIVE Unmatched(_, _, _)
Unmatched(srows, rows, keys) ==
    IF srows = <<>> THEN <<>>
    ELSE IF Matched(Head(srows), rows, keys) THEN Unmatched(Tail(srows), rows, keys)
    ELSE <<Head(srows)>> \o Unmatched(Tail(srows), rows, keys)

MergeRows(target, staging, keys, props) ==
    LET new == Unmatched(staging.rows, target.rows, keys)
    IN Table(target.cols, target.pk,
             [i \in 1..Len(target.rows) |->
                UpdatedRow(target.rows[i], staging.rows, keys, props \ keys)]
             \o [i \in 1..Len(new) |->
                   FullRow(ColNames(target), [c \in props |-> new[i][c]])])

\* The database runs the statement unless: a named column is unknown, the ON
\* list or the SET list is empty (text that does not parse), a target row is
\* matched by two staging rows (it would be updated twice), or the result
\* breaks the primary-key constraint.
MergeAccepted(target, staging, keys, props) ==
    /\ keys # {} /\ props \ keys # {}
    /\ keys \cup props \subseteq ColNames(target) \cap ColNames(staging)
    /\ \A j \in 1..Len(target.rows) :
         Cardinality({i \in 1..Len(staging.rows) :
                        Matches(staging.rows[i], target.rows[j], keys)}) <= 1
    /\ PkHolds(target.pk, MergeRows(target, staging, keys, props).rows)

\* ------------------------------------------------------ streams and schemas
N_id == <<"i", "d">>
N_v == <<"v">>
N_w == <<"w">>
N_a == <<"a">>
N_Id == <<"I", "d">>

Prop(name, frag) == [name |-> name, frag |-> frag]

IntegerFrag == Fragment({"integer"}, "", -1)
StringFrag(maxlen) == Fragment({"string", "null"}, "", maxlen)

\* The schemas a stream's batches come with, by a short id: "A" a text of at
\* most 50 characters, "B" of at most 100, "C" of any length, "D" another
\* column instead; "U" is the schema of the stream without key; "K" has the
\* key property "Id", "I" has the key property and no other.
SchemaOf(id) ==
    CASE id = "A" -> <<Prop(N_id, IntegerFrag), Prop(N_v, StringFrag(50))>>
      [] id = "B" -> <<Prop(N_id, IntegerFrag), Prop(N_v, StringFrag(100))>>
      [] id = "C" -> <<Prop(N_id, IntegerFrag), Prop(N_v, StringFrag(-1))>>
      [] id = "D" -> <<Prop(N_id, IntegerFrag), Prop(N_w, IntegerFrag)>>
      [] id = "U" -> <<Prop(N_a, IntegerFrag)>>
      [] id = "K" -> <<Prop(N_Id, IntegerFrag), Prop(N_v, StringFrag(50))>>
      [] id = "I" -> <<Prop(N_id, IntegerFrag)>>

PropNames(schema) == {schema[i].name : i \in 1..Len(schema)}

\* self.full_table_name and self.key_properties of the sink of a stream. The
\* table of stream "t" has the name of stream "o" with _temp after it, the
\* key property of stream "c" is not its own conformed name, and every
\* property of stream "k" is a key property.
full_table_name(s) ==
    CASE s = "o" -> <<"o">>
      [] s = "p" -> <<"p">>
      [] s = "u" -> <<"u">>
      [] s = "t" -> <<"o", "_", "t", "e", "m", "p">>
      [] s = "c" -> <<"c">>
      [] s = "k" -> <<"k">>

key_properties(s) ==
    CASE s = "u" -> <<>>
      [] s = "c" -> <<N_Id>>
      [] OTHER -> <<N_id>>

SchemaIdsOf(s) ==
    CASE s = "o" -> {"A", "B", "C", "D"}
      [] s = "p" -> {"A"}
      [] s = "u" -> {"U"}
      [] s = "t" -> {"A"}
      [] s = "c" -> {"K"}
      [] s = "k" -> {"I"}

\* The records a batch of stream s with schema id may hold: a value or
\* nothing for every property, a value for every key property.
RecordsOf(s, id) ==
    LET keys == SeqToSet(key_properties(s))
    IN {r \in [PropNames(SchemaOf(id)) -> 0..Max(MaxKey, MaxVal)] :
          \A c \in DOMAIN r : IF c \in keys THEN r[c] \in 1..MaxKey
                                             ELSE r[c] \in 0..MaxVal}

\* The configuration and the class attributes of OracleConnector.
Config ==
    [freeze_schema |-> FALSE, prefer_float_over_numeric |-> FALSE,
     allow_column_add |-> TRUE, allow_column_alter |-> TRUE]

StreamIds == {"o", "p", "u", "t", "c", "k"}
SchemaIds == UNION {SchemaIdsOf(s) : s \in StreamIds}

\* conform_name, tabulated once for the names of the streams (property names
\* and key properties) and for their conformed names, which the source
\* conforms again.
SourceNames ==
    UNION {PropNames(SchemaOf(id)) : id \in SchemaIds}
      \cup UNION {SeqToSet(key_properties(s)) : s \in StreamIds}

ConformedName ==
    [n \in SourceNames \cup {conform_name(m) : m \in SourceNames} |-> conform_name(n)]

\* singer_sdk conform_schema and conform_record: every property name and
\* every record key through conform_name.
conform_schema(schema) ==
    [i \in 1..Len(schema) |-> Prop(ConformedName[schema[i].name], schema[i].frag)]

conform_record(rec) ==
    [c \in {ConformedName[k] : k \in DOMAIN rec} |->
        rec[CHOOSE k \in DOMAIN rec : ConformedName[k] = c]]

\* build_temp_table_name(self.full_table_name, "_temp"), tabulated once.
TempTableName ==
    [s \in StreamIds |-> build_temp_table_name(full_table_name(s), SuffixTemp)]

\* ----------------------------------------------------- schema reconciliation
\* What a call that works on the database leaves: the database, whether it
\* returned (ok) or raised (err names the exception), and the statements it
\* sent, in order.
Outcome(dbx, ok, err, log) == [db |-> dbx, ok |-> ok, err |-> err, log |-> log]

Stmt(op, t, c, type) == [op |-> op, table |-> t, column |-> c, type |-> type]

NoType == SqlType("", 0, 0, 0)

\* The database rejects the statement: env says that it does for a reason of
\* its own (connection, privilege, space, lock).
create_empty_column(dbx, t, column_name, sql_type, cfg, env) ==
    IF ~cfg.allow_column_add THEN Outcome(dbx, FALSE, "NotImplementedError", <<>>)
    ELSE LET name == IF column_name # <<>> /\ Head(column_name) = "_"
                     THEN <<"x">> \o column_name ELSE column_name
             st == <<Stmt("ADD", t, name, sql_type)>>
         IN IF env \/ name \in ColNames(dbx[t])
            THEN Outcome(dbx, FALSE, "RuntimeError", st)
            ELSE Outcome(PutTable(dbx, t, AddColumn(dbx[t], name, sql_type)), TRUE, "", st)

\* An _adapt_column_type that alters the column to the merged type even when
\* that is the type the column has.
adapt_column_type_always(dbx, t, column_name, sql_type, cfg, env) ==
    LET current_type == ColType(dbx[t], column_name)
        compatible_sql_type == merge_sql_types(<<current_type, sql_type>>)
        st == <<Stmt("MODIFY", t, column_name, compatible_sql_type)>>
    IN IF TypeStr(sql_type) = TypeStr(current_type) THEN Outcome(dbx, TRUE, "", <<>>)
       ELSE IF ~cfg.allow_column_alter THEN Outcome(dbx, FALSE, "NotImplementedError", <<>>)
       ELSE IF env THEN Outcome(dbx, FALSE, "RuntimeError", st)
       ELSE Outcome(PutTable(dbx, t, ModifyColumn(dbx[t], column_name, compatible_sql_type)),
                    TRUE, "", st)

\* An _adapt_column_type that never finds the column's type too small.
adapt_column_type_never(dbx, t, column_name, sql_type, cfg, env) ==
    Outcome(dbx, TRUE, "", <<>>)

adapt_column_type(dbx, t, column_name, sql_type, cfg, env) ==
    LET current_type == ColType(dbx[t], column_name)
        compatible_sql_type == merge_sql_types(<<current_type, sql_type>>)
        st == <<Stmt("MODIFY", t, column_name, compatible_sql_type)>>
    IN IF TypeStr(sql_type) = TypeStr(current_type) THEN Outcome(dbx, TRUE, "", <<>>)
       ELSE IF compatible_sql_type = MergeError THEN Outcome(dbx, FALSE, "ValueError", <<>>)
       ELSE IF TypeStrHead(compatible_sql_type) = TypeStrHead(current_type)
       THEN Outcome(dbx, TRUE, "", <<>>)
       ELSE IF ~cfg.allow_column_alter THEN Outcome(dbx, FALSE, "NotImplementedError", <<>>)
       ELSE IF env THEN Outcome(dbx, FALSE, "RuntimeError", st)
       ELSE Outcome(PutTable(dbx, t, ModifyColumn(dbx[t], column_name, compatible_sql_type)),
                    TRUE, "", st)

\* A prepare_column that does not look at freeze_schema.
prepare_column_unfrozen(dbx, t, column_name, sql_type, cfg, env) ==
    IF ~column_exists(dbx, t, column_name)
    THEN create_empty_column(dbx, t, column_name, sql_type, cfg, env)
    ELSE adapt_column_type(dbx, t, column_name, sql_type, cfg, env)

prepare_column(dbx, t, column_name, sql_type, cfg, env) ==
    IF ~column_exists(dbx, t, column_name)
    THEN create_empty_column(dbx, t, column_name, sql_type, cfg, env)
    ELSE IF ~cfg.freeze_schema
    THEN adapt_column_type(dbx, t, column_name, sql_type, cfg, env)
    ELSE Outcome(dbx, TRUE, "", <<>>)

\* parse_full_table_name: the table name is what follows the last dot.
TableNameOf(full) ==
    LET dots == {i \in 1..Len(full) : full[i] = "."}
    IN IF dots = {} THEN full
       ELSE SubSeq(full, (CHOOSE i \in dots : \A j \in dots : j <= i) + 1, Len(full))

\* The CREATE TABLE statement: its columns in order and its primary-key
\* constraint, name "" and no column when it has none.
CreateStmt(t, cols, constraint, pk) ==
    [op |-> "CREATE", table |-> t, column |-> <<>>, type |-> NoType,
     columns |-> cols, constraint |-> constraint, primary_keys |-> pk]

\* A create_empty_table that makes the table without its primary key.
create_empty_table_unkeyed(dbx, t, schema, primary_keys, cfg, env) ==
    LET cols == [i \in 1..Len(schema) |->
                   Col(schema[i].name, to_sql_type(schema[i].frag, cfg.prefer_float_over_numeric))]
        st == <<CreateStmt(t, cols, <<>>, {})>>
    IN IF env THEN Outcome(dbx, FALSE, "DatabaseError", st)
       ELSE Outcome(PutTable(dbx, t, Table(cols, {}, <<>>)), TRUE, "", st)

\* Table(table_name, meta, *columns, pk_constraint) and meta.create_all: the
\* constraint must name columns of the table, else sqlalchemy raises before
\* any statement; one CREATE TABLE with the columns in property order and,
\* when there are primary keys, the constraint <table_name>_PK.
create_empty_table(dbx, t, schema, primary_keys, cfg, env) ==
    LET cols == [i \in 1..Len(schema) |->
                   Col(schema[i].name, to_sql_type(schema[i].frag, cfg.prefer_float_over_numeric))]
        pk == SeqToSet(primary_keys)
        st == <<CreateStmt(t, cols,
                           IF primary_keys # <<>> THEN TableNameOf(t) \o <<"_", "P", "K">>
                           ELSE <<>>,
                           pk)>>
    IN IF ~(pk \subseteq PropNames(schema)) THEN Outcome(dbx, FALSE, "ArgumentError", <<>>)
       ELSE IF env THEN Outcome(dbx, FALSE, "DatabaseError", st)
       ELSE Outcome(PutTable(dbx, t, Table(cols, pk, <<>>)), TRUE, "", st)

\* The loop of singer_sdk prepare_table over the properties from the i-th on:
\* prepare_column for each, until one raises. failAt is the property at whose
\* statement the database fails for a reason of its own (0: at none).
RECURSIVE PrepareColumns(_, _, _, _, _, _, _)
PrepareColumns(dbx, t, schema, i, cfg, failAt, log) ==
    IF i > Len(schema) THEN Outcome(dbx, TRUE, "", log)
    ELSE LET r == prepare_column(dbx, t, schema[i].name,
                                 to_sql_type(schema[i].frag, cfg.prefer_float_over_numeric),
                                 cfg, failAt = i)
         IN IF r.ok
            THEN PrepareColumns(r.db, t, schema, i + 1, cfg, failAt, log \o r.log)
            ELSE Outcome(r.db, FALSE, r.err, log \o r.log)

\* singer_sdk prepare_table, as process_batch calls it: a table that does not
\* exist is created and nothing else is done; an existing one gets every
\* property through prepare_column.
prepare_table(dbx, t, schema, primary_keys, cfg, failAt) ==
    IF ~table_exists(dbx, t)
    THEN create_empty_table(dbx, t, schema, primary_keys, cfg, failAt # 0)
    ELSE PrepareColumns(dbx, t, schema, 1, cfg, failAt, <<>>)

\* ---------------------------------------------------------- the batch loader
\* create_temp_table_from_table: DROP TABLE temp with every error swallowed,
\* then CREATE TABLE temp AS SELECT of no row. envDrop and envCreate: the
\* database fails that statement for a reason of its own.
create_temp_table_from_table_nodrop(dbx, from_table_name, temp_table_name, envDrop, envCreate) ==
    LET c == Stmt("CTAS", temp_table_name, <<>>, NoType)
    IN IF envCreate \/ table_exists(dbx, temp_table_name) \/ ~table_exists(dbx, from_table_name)
       THEN Outcome(dbx, FALSE, "DatabaseError", <<c>>)
       ELSE Outcome(PutTable(dbx, temp_table_name, EmptyCopy(dbx[from_table_name])),
                    TRUE, "", <<c>>)

create_temp_table_from_table(dbx, from_table_name, temp_table_name, envDrop, envCreate) ==
    LET d == Stmt("DROP", temp_table_name, <<>>, NoType)
        c == Stmt("CTAS", temp_table_name, <<>>, NoType)
        db1 == IF table_exists(dbx, temp_table_name) /\ ~envDrop
               THEN RemoveTable(dbx, temp_table_name) ELSE dbx
    IN IF envCreate \/ table_exists(db1, temp_table_name) \/ ~table_exists(db1, from_table_name)
       THEN Outcome(db1, FALSE, "DatabaseError", <<d, c>>)
       ELSE Outcome(PutTable(db1, temp_table_name, EmptyCopy(db1[from_table_name])),
                    TRUE, "", <<d, c>>)

\* The rows bulk_insert_records binds: for every record, the value of each
\* column of the conformed schema in the conformed record, None when absent.
InsertRecords(schema, records) ==
    LET columns == PropNames(conform_schema(schema))
    IN [i \in 1..Len(records) |->
          LET conformed_record == conform_record(records[i])
          IN [c \in columns |->
                IF c \in DOMAIN conformed_record THEN conformed_record[c] ELSE 0]]

\* bulk_insert_records: one INSERT of all the rows in one transaction, and no
\* statement at all for a batch without records.
bulk_insert_records(dbx, t, schema, records, env) ==
    LET insert_records == InsertRecords(schema, records)
        columns == PropNames(conform_schema(schema))
        st == <<Stmt("INSERT", t, <<>>, NoType)>>
    IN IF insert_records = <<>> THEN Outcome(dbx, TRUE, "", <<>>)
       ELSE IF env \/ ~table_exists(dbx, t) THEN Outcome(dbx, FALSE, "DatabaseError", st)
       ELSE IF ~InsertAccepted(dbx[t], columns, insert_records)
       THEN Outcome(dbx, FALSE, "DatabaseError", st)
       ELSE Outcome(PutTable(dbx, t, InsertRows(dbx[t], insert_records)), TRUE, "", st)

\* The MERGE of merge_upsert_from_table: the join keys and the schema are
\* conformed (again), every property that is no join key is updated, every
\* property is inserted.
merge_statement(dbx, from_table_name, to_table_name, schema, join_keys, env) ==
    LET keys == {ConformedName[k] : k \in SeqToSet(join_keys)}
        props == PropNames(conform_schema(schema))
        st == <<Stmt("MERGE", to_table_name, <<>>, NoType)>>
    IN IF env \/ ~table_exists(dbx, from_table_name) \/ ~table_exists(dbx, to_table_name)
       THEN Outcome(dbx, FALSE, "DatabaseError", st)
       ELSE IF ~MergeAccepted(dbx[to_table_name], dbx[from_table_name], keys, props)
       THEN Outcome(dbx, FALSE, "DatabaseError", st)
       ELSE Outcome(PutTable(dbx, to_table_name,
                             MergeRows(dbx[to_table_name], dbx[from_table_name], keys, props)),
                    TRUE, "", st)

\* The DROP TABLE that follows the MERGE in the same transaction.
drop_statement(dbx, t, env) ==
    LET st == <<Stmt("DROP", t, <<>>, NoType)>>
    IN IF env \/ ~table_exists(dbx, t) THEN Outcome(dbx, FALSE, "DatabaseError", st)
       ELSE Outcome(RemoveTable(dbx, t), TRUE, "", st)

\* ------------------------------------------------------------------- state
Loaders == {1, 2}

VARIABLES
    db,       \* the database: table name -> table
    ld,       \* per loader: the batch it processes and where it is in it
    lock,     \* per stream: the loader that holds the stream's lock, or 0
    started,  \* the number of batches started
    call      \* a call of one method on its own: its arguments and its result

vars == <<db, ld, lock, started, call>>

\* No method is called on its own.
NoCall == [fn |-> "", arg |-> <<>>, out |-> <<>>, done |-> FALSE]

\* A loader between two batches. pc is the step to run next; steps the steps
\* run; err the exception the last step raised and failedAt the first step
\* that raised one; fault whether the database
\* failed a statement for a reason of its own; log the statements sent; db0
\* the database when the batch began; pre the target table when the MERGE
\* began; staged the rows the batch put into staging and read the rows its
\* MERGE found there; reload whether the batch repeats the one before it and
\* first the target table that one left.
IdleLoader ==
    [pc |-> "idle", stream |-> "", schema |-> "", records |-> <<>>,
     steps |-> <<>>, err |-> "", failedAt |-> "", fault |-> FALSE, log |-> <<>>, db0 |-> <<>>,
     pre |-> <<>>, staged |-> <<>>, read |-> <<>>, reload |-> FALSE, first |-> <<>>]

Target(p) == full_table_name(ld[p].stream)
Staging(p) == TempTableName[ld[p].stream]
BatchSchema(p) == conform_schema(SchemaOf(ld[p].schema))
\* conformed_records of process_batch
BatchRecords(p) == [i \in 1..Len(ld[p].records) |-> conform_record(ld[p].records[i])]
JoinKeys(p) ==
    [i \in 1..Len(key_properties(ld[p].stream)) |->
        ConformedName[key_properties(ld[p].stream)[i]]]

Released(p) == [s \in DOMAIN lock |-> IF lock[s] = p THEN 0 ELSE lock[s]]

\* A process_batch that goes on to the next step when a step raised.
After_swallowed(p, step, r, next, fault) ==
    [ld[p] EXCEPT !.pc = next,
                  !.steps = Append(@, step),
                  !.err = r.err,
                  !.failedAt = IF @ = "" /\ ~r.ok THEN step ELSE @,
                  !.fault = @ \/ fault,
                  !.log = @ \o r.log]

\* The loader after a step that left outcome r: at pc next when it returned;
\* when it raised, the exception leaves process_batch and the loader is at
\* "failed".
After(p, step, r, next, fault) ==
    [ld[p] EXCEPT !.pc = IF r.ok THEN next ELSE "failed",
                  !.steps = Append(@, step),
                  !.err = r.err,
                  !.failedAt = IF @ = "" /\ ~r.ok THEN step ELSE @,
                  !.fault = @ \/ fault,
                  !.log = @ \o r.log]

Ends(l) == l.pc \in {"done", "failed"}

\* The sets the batches of the streams are taken from. The schemas "B" and
\* "C" are there for the types of their columns: a batch of theirs has at most
\* one record.
BatchesOf(s, id) ==
    SeqsUpTo(RecordsOf(s, id), IF id \in {"B", "C"} THEN 1 ELSE MaxRecs)

Init ==
    /\ db = [t \in {full_table_name("u")} |->
               Table(<<Col(N_a, INTEGER)>>, {}, <<>>)]
    /\ ld = [p \in Loaders |-> IdleLoader]
    /\ lock = [s \in StreamIds |-> 0]
    /\ started = 0
    /\ call = NoCall

\* process_batch is called with a batch of stream s: conformed records, join
\* keys and schema; a stream with key properties goes to prepare_table, one
\* without to bulk_insert_records.
StartBatch(p, s, id, recs) ==
    /\ ld[p].pc = "idle"
    /\ started < MaxBatches
    /\ ld' = [ld EXCEPT ![p] =
                [IdleLoader EXCEPT !.pc = IF key_properties(s) # <<>>
                                          THEN "ensure" ELSE "bulk_insert",
                                   !.stream = s, !.schema = id, !.records = recs,
                                   !.db0 = db]]
    /\ started' = started + 1
    /\ UNCHANGED <<db, lock, call>>

\* process_batch is called again with the batch it just loaded.
Reload(p) ==
    /\ ld[p].pc = "done"
    /\ ~ld[p].reload
    /\ key_properties(ld[p].stream) # <<>>
    /\ started < MaxBatches
    /\ ld' = [ld EXCEPT ![p] =
                [IdleLoader EXCEPT !.pc = "ensure",
                                   !.stream = ld[p].stream, !.schema = ld[p].schema,
                                   !.records = ld[p].records, !.db0 = db,
                                   !.reload = TRUE, !.first = db[Target(p)]]]
    /\ started' = started + 1
    /\ UNCHANGED <<db, lock, call>>

\* ENSURE_TABLE: self.connector.prepare_table(...)
EnsureTable(p) ==
    /\ ld[p].pc = "ensure"
    /\ \E failAt \in 0..Len(BatchSchema(p)) :
         LET r == prepare_table(db, Target(p), BatchSchema(p),
                                key_properties(ld[p].stream), Config, failAt)
             r0 == prepare_table(db, Target(p), BatchSchema(p),
                                 key_properties(ld[p].stream), Config, 0)
         IN /\ failAt # 0 => r # r0
            /\ db' = r.db
            /\ ld' = [ld EXCEPT ![p] = After(p, "ENSURE_TABLE", r, "stage_create", failAt # 0)]
    /\ lock' = IF Ends(ld'[p]) THEN Released(p) ELSE lock
    /\ UNCHANGED <<started, call>>

\* STAGE_CREATE: self.connector.create_temp_table_from_table(...). When the
\* loads of a stream are serialized the loader takes the stream's lock here.
StageCreate(p, serialized) ==
    /\ ld[p].pc = "stage_create"
    /\ serialized => lock[ld[p].stream] = 0
    /\ \E envDrop, envCreate \in BOOLEAN :
         LET r == create_temp_table_from_table(db, Target(p), Staging(p), envDrop, envCreate)
         IN /\ envDrop => table_exists(db, Staging(p))
            /\ db' = r.db
            /\ ld' = [ld EXCEPT ![p] =
                        After(p, "STAGE_CREATE", r, "stage_populate", envDrop \/ envCreate)]
            /\ lock' = IF serialized /\ r.ok
                       THEN [lock EXCEPT ![ld[p].stream] = p] ELSE lock
    /\ UNCHANGED <<started, call>>

\* STAGE_POPULATE: self.bulk_insert_records(full_table_name=tmp_table_name, ...)
StagePopulate(p) ==
    /\ ld[p].pc = "stage_populate"
    /\ \E env \in BOOLEAN :
         LET r == bulk_insert_records(db, Staging(p), BatchSchema(p), BatchRecords(p), env)
         IN /\ env => BatchRecords(p) # <<>>
            /\ db' = r.db
            /\ ld' = [ld EXCEPT ![p] =
                        [After(p, "STAGE_POPULATE", r, "merge", env) EXCEPT
                           !.staged = IF r.ok
                                      THEN SubSeq(r.db[Staging(p)].rows,
                                                  Len(db[Staging(p)].rows) + 1,
                                                  Len(r.db[Staging(p)].rows))
                                      ELSE <<>>]]
    /\ lock' = IF Ends(ld'[p]) THEN Released(p) ELSE lock
    /\ UNCHANGED <<started, call>>

\* MERGE: the transaction of merge_upsert_from_table begins and its MERGE runs.
Merge(p) ==
    /\ ld[p].pc = "merge"
    /\ \E env \in BOOLEAN :
         LET r == merge_statement(db, Staging(p), Target(p), BatchSchema(p), JoinKeys(p), env)
         IN /\ db' = r.db
            /\ ld' = [ld EXCEPT ![p] =
                        [After(p, "MERGE", r, "stage_drop", env) EXCEPT
                           !.pre = IF table_exists(db, Target(p)) THEN db[Target(p)] ELSE <<>>,
                           !.read = IF table_exists(db, Staging(p))
                                    THEN db[Staging(p)].rows ELSE <<>>]]
    /\ lock' = IF Ends(ld'[p]) THEN Released(p) ELSE lock
    /\ UNCHANGED <<started, call>>

\* STAGE_DROP: the DROP TABLE in the transaction of the MERGE, then its end.
\* When the DROP fails the exception leaves the with block, which rolls the
\* transaction back. A DROP is DDL: the database commits the transaction
\* before it runs one, unless it rejects the statement before running it. So
\* after a failed DROP the MERGE is either committed (kept) or rolled back.
StageDrop(p) ==
    /\ ld[p].pc = "stage_drop"
    /\ \E env, kept \in BOOLEAN :
         LET r == drop_statement(db, Staging(p), env)
             undone == IF table_exists(db, Target(p))
                       THEN PutTable(db, Target(p), ld[p].pre) ELSE db
         IN /\ r.ok => kept
            /\ db' = IF r.ok THEN r.db ELSE IF kept THEN db ELSE undone
            /\ ld' = [ld EXCEPT ![p] = After(p, "STAGE_DROP", r, "done", env)]
    /\ lock' = Released(p)
    /\ UNCHANGED <<started, call>>

\* BULK_INSERT: self.bulk_insert_records(full_table_name=self.full_table_name, ...)
BulkInsert(p) ==
    /\ ld[p].pc = "bulk_insert"
    /\ \E env \in BOOLEAN :
         LET r == bulk_insert_records(db, Target(p), BatchSchema(p), BatchRecords(p), env)
         IN /\ env => BatchRecords(p) # <<>>
            /\ db' = r.db
            /\ ld' = [ld EXCEPT ![p] = After(p, "BULK_INSERT", r, "done", env)]
    /\ UNCHANGED <<lock, started, call>>

\* process_batch has returned or raised; the loader is free for the next batch.
Finish(p) ==
    /\ Ends(ld[p])
    /\ ld' = [ld EXCEPT ![p] = IdleLoader]
    /\ UNCHANGED <<db, lock, started, call>>

\* One load process: batches one after the other, of the keyed stream "o"
\* with any of its schemas and of the stream "u" without key.
Next ==
    \/ \E s \in {"o", "u"} : \E id \in SchemaIdsOf(s) : \E recs \in BatchesOf(s, id) :
         StartBatch(1, s, id, recs)
    \/ Reload(1)
    \/ EnsureTable(1)
    \/ StageCreate(1, FALSE)
    \/ StagePopulate(1)
    \/ Merge(1)
    \/ StageDrop(1)
    \/ BulkInsert(1)
    \/ Finish(1)

Spec == Init /\ [][Next]_vars

\* Loaders 1 and 2 side by side, on the keyed streams "o" and "p", the loads
\* of one stream serialized by the stream's lock, taken at STAGE_CREATE and
\* held to the end of the batch.
ConcBatchesOf(s) == {<<r>> : r \in RecordsOf(s, "A")}

NextConc ==
    \E p \in Loaders :
        \/ \E s \in {"o", "p"} : \E recs \in ConcBatchesOf(s) : StartBatch(p, s, "A", recs)
        \/ EnsureTable(p)
        \/ StageCreate(p, TRUE)
        \/ StagePopulate(p)
        \/ Merge(p)
        \/ StageDrop(p)
        \/ Finish(p)

SpecConc == Init /\ [][NextConc]_vars

\* Loader 1 on the keyed streams "o", "t", "c" and "k", each with its first
\* schema.
FirstSchemaOf(s) == IF s = "o" THEN "A" ELSE CHOOSE id \in SchemaIdsOf(s) : TRUE

NextStreams ==
    \/ \E s \in {"o", "t", "c", "k"} : \E recs \in BatchesOf(s, FirstSchemaOf(s)) :
         StartBatch(1, s, FirstSchemaOf(s), recs)
    \/ EnsureTable(1)
    \/ StageCreate(1, FALSE)
    \/ StagePopulate(1)
    \/ Merge(1)
    \/ StageDrop(1)
    \/ Finish(1)

SpecStreams == Init /\ [][NextStreams]_vars

\* ------------------------------------------------- one method on its own
\* The database, the loaders and the locks while one method is called on its
\* own.
NoBatch ==
    /\ db = <<>>
    /\ ld = [p \in Loaders |-> IdleLoader]
    /\ lock = [s \in StreamIds |-> 0]
    /\ started = 0

Call(fn, arg) == [fn |-> fn, arg |-> arg, out |-> <<>>, done |-> FALSE]

\* The types merge_sql_types is called with: bounded texts of some lengths,
\* the unlimited text, and the types to_sql_type has for the other families,
\* the decimal in some precisions and scales.
TextLengths == {25 * i : i \in 1..MaxTextLens}

MergeTypes ==
    {VARCHAR(n) : n \in TextLengths}
      \cup {CLOB, INTEGER, FLOAT, TIMESTAMP, DATE}
      \cup {NUMERIC(NumericPrecision, NumericScale), NUMERIC(NumericPrecision, 0),
            NUMERIC(10, 2)}

InitMerge ==
    /\ NoBatch
    /\ call \in {Call("merge_sql_types", <<a, b>>) : a, b \in MergeTypes}

\* self.merge_sql_types([a, b])
MergeSqlTypes ==
    /\ call.fn = "merge_sql_types"
    /\ ~call.done
    /\ call' = [call EXCEPT !.out = merge_sql_types(call.arg), !.done = TRUE]
    /\ UNCHANGED <<db, ld, lock, started>>

NextMerge == MergeSqlTypes

SpecMerge == InitMerge /\ [][NextMerge]_vars

\* ------------------------------------------------------------ the properties
Keyed(p) == key_properties(ld[p].stream) # <<>>

RowsIn(dbx, t) == IF table_exists(dbx, t) THEN dbx[t].rows ELSE <<>>

ColsIn(dbx, t) == IF table_exists(dbx, t) THEN ColNames(dbx[t]) ELSE {}

\* The rows cut down to the columns cols.
Project(rows, cols) == [i \in 1..Len(rows) |-> [c \in cols |-> rows[i][c]]]

KeyOf(row, keys) == [k \in keys |-> row[k]]

\* The value record rec (keyed by the original names) has for column c: that
\* of the field whose conformed name is c, null when there is none.
RecordValue(rec, c) ==
    IF \E k \in DOMAIN rec : ConformedName[k] = c
    THEN rec[CHOOSE k \in DOMAIN rec : ConformedName[k] = c]
    ELSE 0

BatchKeyNames(p) == {ConformedName[k] : k \in SeqToSet(key_properties(ld[p].stream))}

RecordKey(p, rec) == [k \in BatchKeyNames(p) |-> RecordValue(rec, k)]

BatchKeys(p) == {RecordKey(p, ld[p].records[i]) : i \in 1..Len(ld[p].records)}

DistinctKeys(p) == Cardinality(BatchKeys(p)) = Len(ld[p].records)

\* The rows of the target with key k, now and when the batch began.
RowsWithKey(rows, keys, k) == {i \in 1..Len(rows) : KeyOf(rows[i], keys) = k}

\* The target's rows are those it held when the batch began (a column added
\* since is not looked at).
TargetRowsAsBefore(p) ==
    Project(RowsIn(db, Target(p)), ColsIn(ld[p].db0, Target(p)))
        = RowsIn(ld[p].db0, Target(p))

\* Every record of the batch is in the target: a row that has the record's
\* value in every column of the batch's schema.
EveryRecordReflected(p) ==
    \A i \in 1..Len(ld[p].records) :
        \E j \in 1..Len(RowsIn(db, Target(p))) :
            \A c \in PropNames(BatchSchema(p)) :
                c \in ColsIn(db, Target(p))
                  /\ db[Target(p)].rows[j][c] = RecordValue(ld[p].records[i], c)

\* C1: once process_batch has ended, with staging creation reached, the
\* staging table does not exist. Stated here for the batches in which the
\* database failed no statement for a reason of its own.
C1_StagingDroppedAtEnd ==
    \A p \in Loaders :
        (Ends(ld[p]) /\ ~ld[p].fault /\ Len(ld[p].steps) >= 2
            /\ ld[p].steps[2] = "STAGE_CREATE")
        => ~table_exists(db, Staging(p))

\* C2: no step drops a column of a target table or narrows its type: a
\* bounded text never gets shorter and an unlimited text never gets bounded.
NotNarrowed(old, new) ==
    /\ (old.fam = "VARCHAR" /\ new.fam = "VARCHAR") => new.length >= old.length
    /\ old.fam = "CLOB" => new.fam = "CLOB"

TargetTables == {full_table_name(s) : s \in StreamIds}

LastWithKey(p, k) ==
    LET is == {i \in 1..Len(ld[p].records) : RecordKey(p, ld[p].records[i]) = k}
    IN ld[p].records[CHOOSE i \in is : \A j \in is : j <= i]

C3_LastRecordOfAKeyWins ==
    \A p \in Loaders :
        (Ends(ld[p]) /\ ~ld[p].fault /\ Keyed(p) /\ ~DistinctKeys(p))
        => \A k \in BatchKeys(p) :
             LET rows == RowsIn(db, Target(p))
                 hit == RowsWithKey(rows, BatchKeyNames(p), k)
             IN /\ Cardinality(hit) = 1
                /\ \A i \in hit : \A c \in PropNames(BatchSchema(p)) :
                     rows[i][c] = RecordValue(LastWithKey(p, k), c)

\* C4 as claimed: after a successful keyed load of records with distinct
\* keys, each record has exactly one row, every non-key column of which has
\* the record's value, null when the record has no such field; the rows of
\* other keys are as before; no other row is added.
OtherRowsUnchanged(p) ==
    LET rows0 == RowsIn(ld[p].db0, Target(p))
        cols0 == ColsIn(ld[p].db0, Target(p))
        rows == RowsIn(db, Target(p))
    IN /\ \A i \in 1..Len(rows0) :
            KeyOf(rows0[i], BatchKeyNames(p)) \notin BatchKeys(p)
            => \E j \in 1..Len(rows) :
                 /\ [c \in cols0 |-> rows[j][c]] = rows0[i]
                 /\ \A c \in DOMAIN rows[j] \ cols0 : rows[j][c] = 0
       /\ Len(rows) = Len(rows0)
            + Cardinality({k \in BatchKeys(p) :
                             RowsWithKey(rows0, BatchKeyNames(p) \cap cols0, k) = {}
                               \/ rows0 = <<>>})

LoadedKeyed(p) == ld[p].pc = "done" /\ Keyed(p) /\ DistinctKeys(p)

C4_EveryNonKeyColumnFromRecord ==
    \A p \in Loaders :
        LoadedKeyed(p)
        => /\ \A n \in 1..Len(ld[p].records) :
                LET rec == ld[p].records[n]
                    rows == RowsIn(db, Target(p))
                    hit == RowsWithKey(rows, BatchKeyNames(p), RecordKey(p, rec))
                IN /\ Cardinality(hit) = 1
                   /\ \A i \in hit : \A c \in DOMAIN rows[i] \ BatchKeyNames(p) :
                        rows[i][c] = RecordValue(rec, c)
           /\ OtherRowsUnchanged(p)

\* C4 as amended: the columns of the batch's schema have the record's value;
\* a column of the target that the schema does not have keeps the value the
\* row had before the batch, and is null in a row the batch inserted.
ValueBefore(p, k, c) ==
    LET rows0 == RowsIn(ld[p].db0, Target(p))
        hit == IF rows0 = <<>> THEN {} ELSE RowsWithKey(rows0, BatchKeyNames(p), k)
    IN IF hit = {} \/ c \notin ColsIn(ld[p].db0, Target(p)) THEN 0
       ELSE rows0[CHOOSE i \in hit : TRUE][c]

C4_SchemaColumnsFromRecord ==
    \A p \in Loaders :
        LoadedKeyed(p)
        => /\ \A n \in 1..Len(ld[p].records) :
                LET rec == ld[p].records[n]
                    rows == RowsIn(db, Target(p))
                    hit == RowsWithKey(rows, BatchKeyNames(p), RecordKey(p, rec))
                IN /\ Cardinality(hit) = 1
                   /\ \A i \in hit : \A c \in DOMAIN rows[i] \ BatchKeyNames(p) :
                        rows[i][c] = IF c \in PropNames(BatchSchema(p))
                                     THEN RecordValue(rec, c)
                                     ELSE ValueBefore(p, RecordKey(p, rec), c)
           /\ OtherRowsUnchanged(p)

C4_Witness ==
    \E p \in Loaders :
        /\ LoadedKeyed(p)
        /\ Len(ld[p].records) = 2
        /\ RowsIn(ld[p].db0, Target(p)) # <<>>
        /\ ColsIn(db, Target(p)) # PropNames(BatchSchema(p))
        /\ \E i \in 1..Len(ld[p].records) :
             RowsWithKey(RowsIn(ld[p].db0, Target(p)), BatchKeyNames(p),
                         RecordKey(p, ld[p].records[i])) # {}

\* C5: a batch that failed left the target's rows as they were; a batch that
\* returned has every record in the target.
C5_AllOrNothing ==
    \A p \in Loaders :
        /\ ld[p].pc = "failed" => TargetRowsAsBefore(p)
        /\ ld[p].pc = "done" => EveryRecordReflected(p)

\* C6: the steps of a batch are, in this order, those of a keyed stream or
\* those of a stream without key, each at most once, a step only after the
\* one before it succeeded.
KeyedSteps == <<"ENSURE_TABLE", "STAGE_CREATE", "STAGE_POPULATE", "MERGE", "STAGE_DROP">>
UnkeyedSteps == <<"ENSURE_TABLE", "BULK_INSERT">>

IsPrefix(s, t) == Len(s) <= Len(t) /\ s = SubSeq(t, 1, Len(s))

C6_StepOrder ==
    \A p \in Loaders :
        ld[p].pc # "idle"
        => LET order == IF Keyed(p) THEN KeyedSteps ELSE UnkeyedSteps
           IN /\ IsPrefix(ld[p].steps, order)
              /\ ld[p].pc = "done" => ld[p].steps = order
              /\ ~Keyed(p) => \A i \in 1..Len(ld[p].log) :
                                  ld[p].log[i].op \notin {"CTAS", "MERGE"}

\* C7: when ENSURE_TABLE raised, the batch ran no other step and sent no
\* statement that moves data or makes or drops a staging table; staging and
\* the target's rows are as they were when the batch began.
DataOps == {"DROP", "CTAS", "INSERT", "MERGE"}

C7_EnsureFailureMovesNoData ==
    \A p \in Loaders :
        ld[p].failedAt = "ENSURE_TABLE"
        => /\ ld[p].steps = <<"ENSURE_TABLE">>
           /\ \A i \in 1..Len(ld[p].log) : ld[p].log[i].op \notin DataOps
           /\ table_exists(db, Staging(p)) = table_exists(ld[p].db0, Staging(p))
           /\ table_exists(db, Staging(p)) => db[Staging(p)] = ld[p].db0[Staging(p)]
           /\ TargetRowsAsBefore(p)

C7_Witness ==
    \E p \in Loaders :
        /\ ld[p].failedAt = "ENSURE_TABLE"
        /\ ld[p].log # <<>>
        /\ RowsIn(db, Target(p)) # <<>>

\* C8: when the MERGE ran and the DROP after it failed, the target holds the
\* merged rows and the batch has not failed.
MergedTarget(p) ==
    MergeRows(ld[p].pre, Table(ld[p].pre.cols, {}, ld[p].read),
              BatchKeyNames(p), PropNames(BatchSchema(p)))

C8_DropFailureKeepsMergeAndBatch ==
    \A p \in Loaders :
        ld[p].failedAt = "STAGE_DROP"
        => /\ db[Target(p)] = MergedTarget(p)
           /\ ld[p].pc # "failed"

\* C9: with the loads of a stream serialized, the MERGE of a batch reads the
\* rows the batch itself put into staging, and no two loads are between
\* their STAGE_CREATE and their STAGE_DROP on one staging table.
InStaging(p) == ld[p].pc \in {"stage_populate", "merge", "stage_drop"}

C9_StagingIsTheBatchsOwn ==
    /\ \A p \in Loaders :
         ("MERGE" \in SeqToSet(ld[p].steps) /\ ld[p].failedAt # "MERGE")
         => ld[p].read = ld[p].staged
    /\ \A p, q \in Loaders :
         (p # q /\ InStaging(p) /\ InStaging(q)) => Staging(p) # Staging(q)

C9_Witness ==
    \E p, q \in Loaders :
        /\ p # q
        /\ ld[p].pc = "done" /\ ld[p].read # <<>>
        /\ InStaging(q)
        /\ "MERGE" \in SeqToSet(ld[q].steps)

\* C10: a keyed batch loaded again right after it was loaded completes,
\* unless the database fails a statement for a reason of its own, and leaves
\* the target with the rows and the columns the first load left.
C10_ReloadConverges ==
    \A p \in Loaders :
        (ld[p].reload /\ Ends(ld[p]))
        => \/ ld[p].fault
           \/ ld[p].pc = "done" /\ db[Target(p)] = ld[p].first

C10_Witness ==
    \E p \in Loaders :
        /\ ld[p].reload
        /\ ld[p].pc = "done"
        /\ Len(ld[p].records) = 2
        /\ ~ld[p].fault

\* prepare_column and _adapt_column_type called on their own, on a table T
\* with the key column k and, unless absent, the column x of some type, for
\* a desired type of x, under every setting of freeze_schema and of the two
\* allow_ attributes.
N_T == <<"T">>
N_k == <<"k">>
N_x == <<"x">>

Configs ==
    [freeze_schema : BOOLEAN, prefer_float_over_numeric : {FALSE},
     allow_column_add : BOOLEAN, allow_column_alter : BOOLEAN]

TableWith(type) ==
    [t \in {N_T} |->
        Table(IF type = NoType THEN <<Col(N_k, INTEGER)>>
              ELSE <<Col(N_k, INTEGER), Col(N_x, type)>>, {N_k}, <<>>)]

Reconcile(fn, current, desired, cfg) ==
    Call(fn, [db |-> TableWith(current), current |-> current,
              desired |-> desired, cfg |-> cfg])

InitReconcile ==
    /\ NoBatch
    /\ call \in {Reconcile("prepare_column", c, d, cfg) :
                   c \in MergeTypes \cup {NoType}, d \in MergeTypes, cfg \in Configs}
                \cup {Reconcile("_adapt_column_type", c, d, cfg) :
                        c \in MergeTypes, d \in MergeTypes, cfg \in Configs}

\* self.prepare_column(full_table_name, column_name, sql_type)
PrepareColumn ==
    /\ call.fn = "prepare_column"
    /\ ~call.done
    /\ \E env \in BOOLEAN :
         call' = [call EXCEPT !.out = prepare_column(call.arg.db, N_T, N_x, call.arg.desired,
                                                     call.arg.cfg, env),
                              !.done = TRUE]
    /\ UNCHANGED <<db, ld, lock, started>>

\* self._adapt_column_type(full_table_name, column_name, sql_type)
AdaptColumnType ==
    /\ call.fn = "_adapt_column_type"
    /\ ~call.done
    /\ \E env \in BOOLEAN :
         call' = [call EXCEPT !.out = adapt_column_type(call.arg.db, N_T, N_x, call.arg.desired,
                                                        call.arg.cfg, env),
                              !.done = TRUE]
    /\ UNCHANGED <<db, ld, lock, started>>

NextReconcile == PrepareColumn \/ AdaptColumnType

SpecReconcile == InitReconcile /\ [][NextReconcile]_vars

Adapted == call.fn = "_adapt_column_type" /\ call.done

BothBoundedText == call.arg.current.fam = "VARCHAR" /\ call.arg.desired.fam = "VARCHAR"

\* C18: for a column that is a bounded text of length L and a desired
\* bounded text of length D <= L, no statement is sent and the column keeps
\* its type.
C18_NoAlterWhenNotLonger ==
    (Adapted /\ BothBoundedText /\ call.arg.desired.length <= call.arg.current.length)
    => /\ call.out.ok
       /\ call.out.log = <<>>
       /\ call.out.db = call.arg.db

C18_Witness ==
    /\ Adapted
    /\ call.arg.current = VARCHAR(50)
    /\ call.arg.desired = VARCHAR(25)
    /\ call.out.ok

\* C19: for a column that is a bounded text of length L and a desired
\* bounded text of length D > L: when altering is allowed, exactly one MODIFY
\* of the column to length D is sent (and the column has length D when the
\* database runs it); when it is not allowed, the call raises
\* NotImplementedError and sends no statement.
C19_AlterWhenLonger ==
    (Adapted /\ BothBoundedText /\ call.arg.desired.length > call.arg.current.length)
    => IF call.arg.cfg.allow_column_alter
       THEN /\ call.out.log = <<Stmt("MODIFY", N_T, N_x, call.arg.desired)>>
            /\ call.out.ok => ColType(call.out.db[N_T], N_x) = call.arg.desired
            /\ ~call.out.ok => call.out.err = "RuntimeError" /\ call.out.db = call.arg.db
       ELSE /\ ~call.out.ok
            /\ call.out.err = "NotImplementedError"
            /\ call.out.log = <<>>
            /\ call.out.db = call.arg.db

C19_Witness ==
    /\ Adapted
    /\ call.arg.current = VARCHAR(50)
    /\ call.arg.desired = VARCHAR(100)
    /\ call.arg.cfg.allow_column_alter
    /\ call.out.ok

C19_WitnessNotAllowed ==
    /\ Adapted
    /\ call.arg.current = VARCHAR(50)
    /\ call.arg.desired = VARCHAR(100)
    /\ ~call.arg.cfg.allow_column_alter
    /\ ~call.out.ok

\* C20: with freeze_schema set, prepare_column sends no statement for a
\* column the table has, whatever type is desired, leaves its type and
\* returns; a column the table does not have is added (when adding is
\* allowed and the database runs the statement).
Prepared == call.fn = "prepare_column" /\ call.done

C20_FrozenSchemaOnlyAdds ==
    (Prepared /\ call.arg.cfg.freeze_schema)
    => IF call.arg.current # NoType
       THEN /\ call.out.ok
            /\ call.out.log = <<>>
            /\ call.out.db = call.arg.db
       ELSE /\ \A i \in 1..Len(call.out.log) : call.out.log[i].op = "ADD"
            /\ call.arg.cfg.allow_column_add
                 => /\ call.out.log = <<Stmt("ADD", N_T, N_x, call.arg.desired)>>
                    /\ call.out.ok
                         => /\ column_exists(call.out.db, N_T, N_x)
                            /\ ColType(call.out.db[N_T], N_x) = call.arg.desired
                    /\ ~call.out.ok => call.out.err = "RuntimeError"

C20_Witness ==
    /\ Prepared
    /\ call.arg.cfg.freeze_schema
    /\ call.arg.current = VARCHAR(50)
    /\ call.arg.desired = CLOB
    /\ call.out.ok

C20_WitnessAdded ==
    /\ Prepared
    /\ call.arg.cfg.freeze_schema
    /\ call.arg.current = NoType
    /\ call.out.ok
    /\ column_exists(call.out.db, N_T, N_x)

\* prepare_table called on its own, twice in a row with one schema, on the
\* table T that has the column k and perhaps the column x. The schema has k
\* and some of x and the column whose name is one underscore (the conformed
\* name of the property "_").
N_underscore == <<"_">>

AddSchemas ==
    LET k == Prop(N_k, IntegerFrag)
        x == Prop(N_x, StringFrag(50))
        u == Prop(N_underscore, IntegerFrag)
    IN {<<k>>, <<k, x>>, <<k, u>>, <<k, x, u>>, <<k, u, x>>}

InitAdd ==
    /\ NoBatch
    /\ call \in {Call("prepare_table", [db |-> TableWith(c), schema |-> sch, cfg |-> cfg]) :
                   c \in {NoType, VARCHAR(50)}, sch \in AddSchemas, cfg \in Configs}

\* self.prepare_table(full_table_name, schema, primary_keys)
PrepareTable ==
    /\ call.fn = "prepare_table"
    /\ ~call.done
    /\ \E failAt \in 0..Len(call.arg.schema) :
         LET r == prepare_table(call.arg.db, N_T, call.arg.schema, <<N_k>>, call.arg.cfg, failAt)
         IN /\ failAt # 0 => r # prepare_table(call.arg.db, N_T, call.arg.schema, <<N_k>>,
                                               call.arg.cfg, 0)
            /\ call' = [call EXCEPT !.out = <<r>>, !.done = TRUE]
    /\ UNCHANGED <<db, ld, lock, started>>

\* self.prepare_table(...) again, with the same schema, after it returned.
PrepareTableAgain ==
    /\ call.fn = "prepare_table"
    /\ call.done
    /\ Len(call.out) = 1
    /\ call.out[1].ok
    /\ call' = [call EXCEPT !.out = Append(@, prepare_table(call.out[1].db, N_T, call.arg.schema,
                                                            <<N_k>>, call.arg.cfg, 0))]
    /\ UNCHANGED <<db, ld, lock, started>>

NextAdd == PrepareTable \/ PrepareTableAgain

SpecAdd == InitAdd /\ [][NextAdd]_vars

\* C21: for an existing table, each column of the schema that the table does
\* not have gets exactly one ADD, under its name with an x before it when the
\* name begins with an underscore; when adding is not allowed the call raises
\* NotImplementedError and sends no statement; and after prepare_table
\* returned, prepare_table with the same schema sends no ADD.
Escaped(c) == IF c # <<>> /\ Head(c) = "_" THEN <<"x">> \o c ELSE c

AddsOf(log) == {i \in 1..Len(log) : log[i].op = "ADD"}

C21_AbsentColumnsAddedOnce ==
    (call.fn = "prepare_table" /\ call.done)
    => LET r == call.out[1]
           absent == PropNames(call.arg.schema) \ ColNames(call.arg.db[N_T])
       IN /\ r.ok => /\ Cardinality(AddsOf(r.log)) = Cardinality(absent)
                     /\ \A c \in absent :
                          /\ \E i \in AddsOf(r.log) : r.log[i].column = Escaped(c)
                          /\ column_exists(r.db, N_T, Escaped(c))
          /\ (absent # {} /\ ~call.arg.cfg.allow_column_add)
               => ~r.ok /\ r.err = "NotImplementedError" /\ r.log = <<>>
          /\ Len(call.out) = 2 => AddsOf(call.out[2].log) = {}

\* C24: a STAGE_CREATE the database does not fail succeeds, whatever staging
\* table of the name was there before, and leaves a staging table with no
\* rows and the columns the target has now.
C24_StageCreateRestarts ==
    [][\A p \in Loaders :
         (ld[p].pc = "stage_create" /\ ld'[p].pc # "stage_create" /\ ~ld'[p].fault)
         => /\ ld'[p].pc = "stage_populate"
            /\ table_exists(db', Staging(p))
            /\ db'[Staging(p)].rows = <<>>
            /\ db'[Staging(p)].cols = db'[Target(p)].cols]_vars

\* STAGE_CREATE succeeded where an earlier batch had left a staging table
\* with rows and with columns that are not the target's.
C24_Witness ==
    /\ ld[1].pc = "stage_populate"
    /\ table_exists(ld[1].db0, Staging(1))
    /\ ld[1].db0[Staging(1)].rows # <<>>
    /\ ld[1].db0[Staging(1)].cols # db[Target(1)].cols
    /\ db[Staging(1)].rows = <<>>
    /\ db[Staging(1)].cols = db[Target(1)].cols

\* The schema fragments to_sql_type is called with: a fragment with no type,
\* one type or one type and null, with or without a format and a maxLength;
\* a fragment with up to MaxAnyOf anyOf alternatives; and a fragment whose
\* only alternative has such alternatives itself.
TypeTags == {"string", "integer", "number", "boolean", "object", "array", "null"}

TagSets == {{}} \cup {{t} : t \in TypeTags} \cup {{t, "null"} : t \in TypeTags}

PlainFragments ==
    {Fragment(tags, fmt, n) : tags \in TagSets,
                              fmt \in {"", "date-time", "time", "date", "email"},
                              n \in {-1, 100, ClobThreshold, ClobThreshold + 1}}

Alternatives ==
    {Fragment({"string"}, fmt, -1) : fmt \in {"", "date-time", "date"}}
      \cup {Fragment({"integer"}, "", -1), Fragment({"null"}, "", -1)}

WithAnyOf(frag, alts) == [frag EXCEPT !.anyOf = alts]

AnyOfFragments ==
    {WithAnyOf(Fragment(tags, fmt, n), alts) :
        tags \in {{}, {"string"}}, fmt \in {"", "date"}, n \in {-1, 100},
        alts \in SeqsUpTo(Alternatives, MaxAnyOf) \ {<<>>}}

NestedFragments ==
    {WithAnyOf(Fragment({}, "", -1), <<WithAnyOf(Fragment({}, "", -1), alts)>>) :
        alts \in SeqsUpTo(Alternatives, MaxAnyOf) \ {<<>>}}

Fragments == PlainFragments \cup AnyOfFragments \cup NestedFragments

InitType ==
    /\ NoBatch
    /\ call \in {Call("to_sql_type", [frag |-> f, prefer_float_over_numeric |-> pf]) :
                   f \in Fragments, pf \in BOOLEAN}

\* self.to_sql_type(jsonschema_type)
ToSqlType ==
    /\ call.fn = "to_sql_type"
    /\ ~call.done
    /\ call' = [call EXCEPT !.out = to_sql_type(call.arg.frag, call.arg.prefer_float_over_numeric),
                            !.done = TRUE]
    /\ UNCHANGED <<db, ld, lock, started>>

NextType == ToSqlType

SpecType == InitType /\ [][NextType]_vars

\* A test matches a fragment when the fragment itself passes it or one of
\* its anyOf alternatives matches: the test for a type tag, and the test for
\* a string of a format.
RECURSIVE HasType(_, _)
HasType(frag, tag) ==
    \/ tag \in frag.type
    \/ \E i \in 1..Len(frag.anyOf) : HasType(frag.anyOf[i], tag)

RECURSIVE HasStringOfFormat(_, _)
HasStringOfFormat(frag, fmt) ==
    \/ "string" \in frag.type /\ frag.format = fmt
    \/ \E i \in 1..Len(frag.anyOf) : HasStringOfFormat(frag.anyOf[i], fmt)

\* The priority table, first match wins.
TypeOfTable(frag, prefer_float) ==
    IF HasStringOfFormat(frag, "date-time") THEN TIMESTAMP
    ELSE IF HasStringOfFormat(frag, "time") THEN TIMESTAMP
    ELSE IF HasStringOfFormat(frag, "date") THEN DATE
    ELSE IF HasType(frag, "string")
    THEN IF frag.maxLength = -1 \/ frag.maxLength > 4000 THEN CLOB
         ELSE VARCHAR(frag.maxLength)
    ELSE IF HasType(frag, "integer") THEN INTEGER
    ELSE IF HasType(frag, "number")
    THEN IF prefer_float THEN FLOAT ELSE NUMERIC(38, 10)
    ELSE IF HasType(frag, "boolean") THEN VARCHAR(1)
    ELSE IF HasType(frag, "object") \/ HasType(frag, "array") THEN CLOB
    ELSE VARCHAR(4000)

\* C22: to_sql_type returns, for every fragment, the type of the priority
\* table.
C22_TypeFollowsPriorityTable ==
    (call.fn = "to_sql_type" /\ call.done)
    => call.out = TypeOfTable(call.arg.frag, call.arg.prefer_float_over_numeric)

\* The connection settings of the target: each setting absent ("") or set.
Setting(v) == {"", v}

ConnectionConfigs ==
    [sqlalchemy_url : Setting("oracle+oracledb://u:p@h:1521/d"),
     proxy_user : Setting("PROXY"), dsn : Setting("DSN"),
     tns_admin : Setting("/wallet"), target_schema : Setting("SCHEMA"),
     username : Setting("user"), password : Setting("pw"),
     host : Setting("host"), port : Setting("1521"), database : Setting("db")]

\* A URL is the sequence of the pieces it is formatted from; a raised
\* exception is an outcome with its name in err.
Returned(v, env) == [value |-> v, err |-> "", TNS_ADMIN |-> env]

Raised(e, env) == [value |-> <<>>, err |-> e, TNS_ADMIN |-> env]

get_sqlalchemy_url(cfg, env) ==
    IF cfg.sqlalchemy_url # "" THEN Returned(<<cfg.sqlalchemy_url>>, env)
    ELSE LET env1 == IF cfg.tns_admin # "" THEN cfg.tns_admin ELSE env
         IN  IF cfg.proxy_user # ""
             THEN IF cfg.target_schema # ""
                  THEN Returned(<<"oracle+oracledb://[", cfg.target_schema, "]@", cfg.proxy_user>>, env1)
                  ELSE Returned(<<"oracle+oracledb://@", cfg.proxy_user>>, env1)
             ELSE IF cfg.dsn # ""
             THEN Returned(<<"oracle+oracledb:///?dsn=", cfg.dsn>>, env1)
             ELSE IF /\ cfg.username # "" /\ cfg.password # "" /\ cfg.host # ""
                     /\ cfg.port # "" /\ cfg.database # ""
             THEN Returned(<<"oracle+oracledb://", cfg.username, ":", cfg.password,
                             "@", cfg.host, ":", cfg.port, "/", cfg.database>>, env1)
             ELSE Raised("ValueError", env1)

\* The engine create_engine returns: the URL it is built on and whether its
\* connections come from the creator function.
Engine(url, creator) == [url |-> url, creator |-> creator]

create_engine(cfg, env) ==
    LET url == get_sqlalchemy_url(cfg, env)
        wallet_mode == cfg.proxy_user # "" \/ cfg.dsn # ""
    IN  IF url.err # "" THEN url
        ELSE IF wallet_mode
        THEN Returned(Engine(<<"oracle+oracledb://">>, TRUE), url.TNS_ADMIN)
        ELSE Returned(Engine(url.value, FALSE), url.TNS_ADMIN)

\* What a connection of the engine is opened with: creator() calls
\* oracledb.connect(user, dsn), an engine without creator connects to its URL.
connect(engine, cfg, env) ==
    IF engine.creator
    THEN LET env1 == IF cfg.tns_admin # "" THEN cfg.tns_admin ELSE env
             user == IF cfg.proxy_user # "" /\ cfg.target_schema # ""
                     THEN <<"[", cfg.target_schema, "]">> ELSE <<>>
             dsn == IF cfg.proxy_user # "" THEN cfg.proxy_user ELSE cfg.dsn
         IN  [url |-> <<>>, user |-> user, dsn |-> dsn, TNS_ADMIN |-> env1]
    ELSE [url |-> engine.url, user |-> <<>>, dsn |-> "", TNS_ADMIN |-> env]

InitConnect ==
    /\ NoBatch
    /\ call \in {Call(fn, cfg) : fn \in {"get_sqlalchemy_url", "create_engine"},
                                 cfg \in ConnectionConfigs}

\* connector.get_sqlalchemy_url()
GetSqlalchemyUrl ==
    /\ call.fn = "get_sqlalchemy_url"
    /\ ~call.done
    /\ call' = [call EXCEPT !.out = <<get_sqlalchemy_url(call.arg, "")>>, !.done = TRUE]
    /\ UNCHANGED <<db, ld, lock, started>>

\* connector.create_engine()
CreateEngine ==
    /\ call.fn = "create_engine"
    /\ ~call.done
    /\ call' = [call EXCEPT !.out = <<create_engine(call.arg, "")>>, !.done = TRUE]
    /\ UNCHANGED <<db, ld, lock, started>>

\* engine.connect() on the engine create_engine returned
Connect ==
    /\ call.fn = "create_engine"
    /\ call.done
    /\ Len(call.out) = 1
    /\ call.out[1].err = ""
    /\ call' = [call EXCEPT !.out = Append(call.out,
                   connect(call.out[1].value, call.arg, call.out[1].TNS_ADMIN))]
    /\ UNCHANGED <<db, ld, lock, started>>

NextConnect == GetSqlalchemyUrl \/ CreateEngine \/ Connect

SpecConnect == InitConnect /\ [][NextConnect]_vars

\* C23: with sqlalchemy_url configured, get_sqlalchemy_url returns it, the
\* engine is built on it, and a connection of the engine is opened with it
\* and with no other setting.
C23_ConfiguredUrlOverrides ==
    (call.fn \in {"get_sqlalchemy_url", "create_engine"} /\ call.done
       /\ call.arg.sqlalchemy_url # "")
    => /\ call.out[1].err = ""
       /\ call.out[1].TNS_ADMIN = ""
       /\ call.fn = "get_sqlalchemy_url" => call.out[1].value = <<call.arg.sqlalchemy_url>>
       /\ call.fn = "create_engine"
            => /\ call.out[1].value = Engine(<<call.arg.sqlalchemy_url>>, FALSE)
               /\ Len(call.out) = 2
                    => call.out[2] = [url |-> <<call.arg.sqlalchemy_url>>, user |-> <<>>,
                                      dsn |-> "", TNS_ADMIN |-> ""]

\* The names conform_name is called with: the strings of up to MaxNameLen
\* characters of a lowercase letter, two uppercase letters, a digit, the
\* underscore and a special character, and the names of the repository's
\* tests for a leading digit.
NameChars == {"a", "B", "C", "1", "_", "-"}

NameOfTestCore == <<"1", "2", "3", "c", "u", "s", "t", "o", "m", "e", "r">>

NameOfTestConformance == <<"1", "a", "b", "c">>

Names == SeqsUpTo(NameChars, MaxNameLen) \cup {NameOfTestCore, NameOfTestConformance}

InitName ==
    /\ NoBatch
    /\ call \in {Call("conform_name", n) : n \in Names}

\* self.conform_name(name)
ConformName ==
    /\ call.fn = "conform_name"
    /\ ~call.done
    /\ call' = [call EXCEPT !.out = conform_name(call.arg), !.done = TRUE]
    /\ UNCHANGED <<db, ld, lock, started>>

NextName == ConformName

SpecName == InitName /\ [][NextName]_vars

Conformed == call.fn = "conform_name" /\ call.done

\* C14: conform_name(conform_name(x)) = conform_name(x) for every name x.
C14_ConformNameIdempotent == Conformed => conform_name(call.out) = call.out

C14_Witness ==
    /\ Conformed
    /\ call.arg = <<"_", "1", "-", "B">>
    /\ call.out # call.arg

\* C15: when the name after the replacement of special characters, the move
\* of the leading underscores and the snake-casing starts with a digit,
\* conform_name returns it with an n before it, the digit kept; otherwise it
\* returns it as it is. conform_name('123customer') is 'n123customer'.
SnakeCased(name) == snakecase(move_leading_underscores(ReplaceSpecial(name)))

C16_DigitBecomesLetter ==
    (Conformed /\ call.arg # <<>> /\ IsDigit(call.arg[1]))
    => /\ Len(call.out) = Len(SnakeCased(call.arg))
       /\ call.out[1] = DigitLetter(call.arg[1])
       /\ call.arg = NameOfTestConformance => call.out = <<"b", "a", "b", "c">>

\* Type t can hold every value of type u: the same type; of two texts the
\* unlimited one or the longer one; of two decimals the one with no less
\* precision and scale. Types of two families that are not both text have
\* no common representation.
CanRepresent(t, u) ==
    \/ t = u
    \/ IsStringType(t) /\ IsStringType(u)
         /\ (t.fam = "CLOB" \/ (u.fam = "VARCHAR" /\ t.length >= u.length))
    \/ t.fam = "NUMERIC" /\ u.fam = "NUMERIC"
         /\ t.precision >= u.precision /\ t.scale >= u.scale

Merged == call.fn = "merge_sql_types" /\ call.done

\* C11: merge_sql_types([a, b]) fails or returns a type that can represent
\* both a and b: the unlimited text for the unlimited text and a bounded
\* text in either order, the longer of two bounded texts.
C11_MergeAtLeastAsCapable ==
    Merged
    => \/ call.out = MergeError
       \/ CanRepresent(call.out, call.arg[1]) /\ CanRepresent(call.out, call.arg[2])

\* C12: merge_sql_types([a, b]) = merge_sql_types([b, a]) for two types of
\* one family.
C12_MergeCommutesInFamily ==
    (Merged /\ call.arg[1].fam = call.arg[2].fam)
    => call.out = merge_sql_types(<<call.arg[2], call.arg[1]>>)

\* C13: merge_sql_types([a, b]) fails for two types of different families
\* that are not both text.
C13_MergeFailsAcrossFamilies ==
    (Merged /\ call.arg[1].fam # call.arg[2].fam
       /\ ~(IsStringType(call.arg[1]) /\ IsStringType(call.arg[2])))
    => call.out = MergeError

\* C17: a keyed batch whose target table does not exist sends exactly one
\* CREATE TABLE, with every column of the schema in the order of its
\* properties and the primary-key constraint <table>_PK, and sends no ADD and
\* no MODIFY; the table it makes has these columns and this key.
FirstBatchOfTable(p) ==
    /\ ld[p].pc # "idle"
    /\ Keyed(p)
    /\ ~table_exists(ld[p].db0, Target(p))
    /\ ld[p].steps # <<>>

C17_OneCreateWithPrimaryKey ==
    \A p \in Loaders :
        FirstBatchOfTable(p)
        => LET log == ld[p].log
           IN /\ log # <<>>
              /\ Cardinality({i \in 1..Len(log) : log[i].op = "CREATE"}) = 1
              /\ \A i \in 1..Len(log) : log[i].op \notin {"ADD", "MODIFY"}
              /\ log[1].op = "CREATE"
              /\ log[1].table = Target(p)
              /\ Len(log[1].columns) = Len(BatchSchema(p))
              /\ \A i \in 1..Len(BatchSchema(p)) :
                   log[1].columns[i].name = BatchSchema(p)[i].name
              /\ log[1].constraint = Target(p) \o <<"_", "P", "K">>
              /\ log[1].primary_keys = BatchKeyNames(p)
              /\ ld[p].failedAt # "ENSURE_TABLE"
                   => /\ table_exists(db, Target(p))
                      /\ db[Target(p)].cols = log[1].columns
                      /\ db[Target(p)].pk = BatchKeyNames(p)

C17_Witness ==
    \E p \in Loaders :
        /\ FirstBatchOfTable(p)
        /\ ld[p].pc = "stage_create"
        /\ Len(BatchSchema(p)) = 2
        /\ table_exists(db, Target(p))

\* C25: a step of a batch of stream "o" leaves the target table of stream
\* "t", whose name is that of "o" with _temp after it, as it was. The table
\* is the one a batch of "t" created: it has the primary key.
C25_LoadLeavesOtherTargetsIntact ==
    [][(ld[1].stream = "o" /\ ld'[1].stream = "o"
          /\ table_exists(db, full_table_name("t"))
          /\ db[full_table_name("t")].pk # {})
       => /\ table_exists(db', full_table_name("t"))
          /\ db'[full_table_name("t")] = db[full_table_name("t")]]_vars

AllKeys(p) == PropNames(BatchSchema(p)) \subseteq BatchKeyNames(p)

C27_AllKeyMergeInsertsOnly ==
    \A p \in Loaders :
        (Ends(ld[p]) /\ Keyed(p) /\ AllKeys(p) /\ DistinctKeys(p) /\ ~ld[p].fault)
        => /\ ld[p].pc = "done"
           /\ EveryRecordReflected(p)
           /\ OtherRowsUnchanged(p)

====
